---- MODULE Spec2Model ----
(***************************************************************************)
(* A model of app.py: the reference extractor (extract_references), the    *)
(* answer generator (generate_answer) and the /process request handler.    *)
(*                                                                         *)
(* Python strings are modelled as sequences of pieces.  A document text is *)
(* a sequence of one-character strings, so that the regular expression of  *)
(* extract_references is matched character by character; literals that    *)
(* are never scanned ("No references found.", the error prefix, a file     *)
(* extension) are one piece each.  None is the one-piece value NoneValue.  *)
(***************************************************************************)
EXTENDS Integers, Sequences, FiniteSets, TLC

VARIABLES
    \* --- extract_references on its own (SpecRefs)
    doc,          \* how the input text was laid out: body, entries, separators
    text,         \* the argument pdf_text of extract_references
    returned,     \* its return value
    rpc,          \* "start" before the call, "done" after it
    \* --- generate_answer on its own (SpecGen)
    model_name,       \* the argument model_name
    question_tokens,  \* how many tokens the tokenizer makes of question
    pdf_tokens,       \* how many tokens the tokenizer makes of pdf_text
    fault,            \* which library call raises in this call, if any
    outcome,          \* what the call did: raised or returned, and the value
    gpc,              \* "start" before the call, "done" after it
    \* --- process-wide state
    models,           \* the module-level dict models
    tokenizers,       \* the module-level dict tokenizers
    uploads,          \* the paths of the files in UPLOAD_FOLDER
    \* --- the /process handler (Spec)
    request,          \* the form fields and the file of the request in hand
    question,         \* the local question
    pdf_text,         \* the local pdf_text
    uploaded_file,    \* the local uploaded_file: its filename, or None
    references,       \* the local references
    answers,          \* bart_answer, gpt2_answer, gpt_neo_answer, as assigned
    calls,            \* the calls the handler has made for this request
    response,         \* what the handler returned
    hpc,              \* where the handler is
    served            \* how many requests have arrived

refVars == <<doc, text, returned, rpc>>
genVars == <<model_name, question_tokens, pdf_tokens, fault, outcome, gpc>>

globalVars == <<models, tokenizers, uploads>>
procVars == <<request, question, pdf_text, uploaded_file, references, answers,
              calls, response, hpc, served>>

vars == <<doc, text, returned, rpc,
          model_name, question_tokens, pdf_tokens, fault, outcome, gpc,
          models, tokenizers, uploads,
          request, question, pdf_text, uploaded_file, references, answers,
          calls, response, hpc, served>>

----------------------------------------------------------------------------
(* Bounds of the model                                                      *)

\* Longest raw text (any characters of RawChars) given to extract_references.
MaxTextLen == 5
\* Most reference entries in a laid-out document.
MaxEntries == 2
\* Short questions and documents have up to this many tokens; the long ones
\* are placed around the context limit.
MaxShortTokens == 2
\* Requests the server handles, one after the other.
MaxRequests == 2

----------------------------------------------------------------------------
(* Python values                                                            *)

NoneValue == <<"None">>

\* bool(x) of a str or None: None and "" are falsy.
Truthy(x) == x # NoneValue /\ x # <<>>

\* s.startswith(p)
StartsWith(s, p) ==
    Len(p) <= Len(s) /\ SubSeq(s, 1, Len(p)) = p

\* p in s
Contains(s, p) ==
    \E i \in 1..(Len(s) - Len(p) + 1) : SubSeq(s, i, i + Len(p) - 1) = p

\* extract_references is not being called on its own.
RefsIdle ==
    /\ doc = [kind |-> "raw", body |-> <<>>, entries |-> <<>>, seps |-> <<>>]
    /\ text = <<>>
    /\ returned = <<>>
    /\ rpc = "idle"

NoResponse == [status |-> 0]

\* The locals of a handler that is not running.
NoLocals ==
    /\ question = NoneValue
    /\ pdf_text = NoneValue
    /\ uploaded_file = NoneValue
    /\ references = <<>>
    /\ answers = <<>>
    /\ calls = <<>>

\* No request is being handled.
ProcIdle ==
    /\ request = [question |-> NoneValue, pdf_text |-> NoneValue, file |-> NoneValue]
    /\ NoLocals
    /\ response = NoResponse
    /\ hpc = "idle"
    /\ served = 0

\* generate_answer is not being called on its own.
GenIdle ==
    /\ model_name = "bart"
    /\ question_tokens = 0
    /\ pdf_tokens = 0
    /\ fault = "none"
    /\ outcome = NoneValue
    /\ gpc = "idle"

----------------------------------------------------------------------------
(* extract_references: r"(\[\d+\]\s.+?)(?=\n\n|\Z)" with MULTILINE|DOTALL   *)

Digits == {"0", "1", "2", "3", "4", "5", "6", "7", "8", "9"}

\* \d
IsDigit(c) == c \in Digits

\* \s
IsSpace(c) == c \in {" ", "\t", "\n", "\r", "\f"}

RECURSIVE DigitsEnd(_, _)
\* \d+ from index k: the index of the last digit of the run (k-1: no digit).
DigitsEnd(t, k) ==
    IF k <= Len(t) /\ IsDigit(t[k]) THEN DigitsEnd(t, k + 1) ELSE k - 1

\* \[\d+\] at index s: the index of its "]", or 0 when it does not match.
LabelEnd(t, s) ==
    IF s <= Len(t) /\ t[s] = "["
    THEN LET d == DigitsEnd(t, s + 1)
         IN  IF d >= s + 1 /\ d + 1 <= Len(t) /\ t[d + 1] = "]"
             THEN d + 1
             ELSE 0
    ELSE 0

\* (?=\n\n|\Z) with p the index of the next character to read.
Lookahead(t, p) ==
    \/ p + 1 <= Len(t) /\ t[p] = "\n" /\ t[p + 1] = "\n"
    \/ p = Len(t) + 1

RECURSIVE LazyEnd(_, _)
\* .+? having consumed up to index e (DOTALL: any character): the first
\* index from e on at which the lookahead succeeds.
LazyEnd(t, e) ==
    IF Lookahead(t, e + 1) THEN e ELSE LazyEnd(t, e + 1)

\* The whole pattern at index s: the index of the match's last character,
\* or 0 when there is no match starting at s.
MatchAt(t, s) ==
    LET l == LabelEnd(t, s)
    IN  IF l = 0 \/ l + 2 > Len(t) \/ ~IsSpace(t[l + 1])
        THEN 0
        ELSE LazyEnd(t, l + 2)

RECURSIVE FindSpans(_, _)
\* The scan of re.findall from index pos: the non-overlapping matches, as
\* <<first, last>> index pairs, leftmost first.
FindSpans(t, pos) ==
    IF pos > Len(t)
    THEN <<>>
    ELSE LET e == MatchAt(t, pos)
         IN  IF e = 0
             THEN FindSpans(t, pos + 1)
             ELSE <<<<pos, e>>>> \o FindSpans(t, e + 1)

\* re.findall(references_pattern, pdf_text, ...): the strings of group 1.
FindAll(t) ==
    LET spans == FindSpans(t, 1)
    IN  [i \in 1..Len(spans) |-> SubSeq(t, spans[i][1], spans[i][2])]

Sentinel == <<"No references found.">>

\* extract_references with the sentinel forgotten.
ExtractReferencesNoSentinel(t) ==
    IF t = NoneValue
    THEN [raised |-> TRUE, value |-> <<>>]
    ELSE [raised |-> FALSE, value |-> FindAll(t)]

\* extract_references(pdf_text).  re.findall raises TypeError on None.
ExtractReferences(t) ==
    IF t = NoneValue
    THEN [raised |-> TRUE, value |-> <<>>]
    ELSE LET matches == FindAll(t)
         IN  [raised |-> FALSE,
              value  |-> IF matches # <<>> THEN matches ELSE <<Sentinel>>]

----------------------------------------------------------------------------
(* generate_answer                                                          *)

\* The keys of the module-level dicts models and tokenizers.
ModelKeys == <<"bart", "gpt2", "gpt_neo">>

\* MODEL_NAMES, with what AutoModelFor... loads for each key.
MODEL_NAMES ==
    [bart    |-> [name |-> "facebook/bart-large-cnn", kind |-> "seq2seq"],
     gpt2    |-> [name |-> "gpt2", kind |-> "causal"],
     gpt_neo |-> [name |-> "EleutherAI/gpt-neo-2.7B", kind |-> "causal"]]

\* tokenizers: the BART tokenizer wraps its input in <s> ... </s>, the GPT-2
\* and GPT-Neo tokenizers add no special tokens.
TokenizerRegistry ==
    [bart    |-> [name |-> "facebook/bart-large-cnn", special |-> TRUE],
     gpt2    |-> [name |-> "gpt2", special |-> FALSE],
     gpt_neo |-> [name |-> "EleutherAI/gpt-neo-2.7B", special |-> FALSE]]

\* The process after the module has been loaded: both dicts filled, and
\* nothing uploaded yet.
ProcessStarted ==
    /\ models = MODEL_NAMES
    /\ tokenizers = TokenizerRegistry
    /\ uploads = {}

\* max_length of tokenizer.encode
MaxInputTokens == 1024
\* Tokens of the literal "Research Question: " of the prompt
TemplateTokens == 4
\* Tokens of the literal "\n\nContext: " of the prompt
BoundaryTokens == 5

\* A token sequence is kept as its runs: <<[part, n], ...>> stands for n
\* tokens that came from each named part of the prompt, in that order.
RECURSIVE Total(_)
Total(runs) == IF runs = <<>> THEN 0 ELSE Head(runs).n + Total(Tail(runs))

RECURSIVE TokenAt(_, _)
\* The part the i-th token of runs came from (1 <= i <= Total(runs)).
TokenAt(runs, i) ==
    IF i <= Head(runs).n THEN Head(runs).part ELSE TokenAt(Tail(runs), i - Head(runs).n)

Run(part, n) == IF n = 0 THEN <<>> ELSE <<[part |-> part, n |-> n]>>

\* The tokens of f"Research Question: {question}\n\nContext: {pdf_text}".
PromptTokens(q_tokens, doc_tokens) ==
    Run("template", TemplateTokens) \o Run("question", q_tokens)
    \o Run("boundary", BoundaryTokens) \o Run("context", doc_tokens)

RECURSIVE KeepLast(_, _)
\* Truncation from the wrong side: the last limit tokens of runs.
KeepLast(runs, limit) ==
    IF runs = <<>> \/ limit = 0
    THEN <<>>
    ELSE LET last == runs[Len(runs)]
             front == SubSeq(runs, 1, Len(runs) - 1)
         IN  IF last.n <= limit
             THEN KeepLast(front, limit - last.n) \o <<last>>
             ELSE Run(last.part, limit)

RECURSIVE KeepFirst(_, _)
\* The first limit tokens of runs.
KeepFirst(runs, limit) ==
    IF runs = <<>> \/ limit = 0
    THEN <<>>
    ELSE LET h == Head(runs)
         IN  IF h.n <= limit
             THEN <<h>> \o KeepFirst(Tail(runs), limit - h.n)
             ELSE Run(h.part, limit)

\* truncation=True, max_length=limit: trailing tokens are dropped.
Truncate(runs, limit) == KeepFirst(runs, limit)

\* tokenizer.encode(input_text, truncation=True, max_length=1024): the
\* special tokens count towards max_length.
Encode(tokenizer, runs) ==
    IF tokenizer.special
    THEN Run("bos", 1) \o Truncate(runs, MaxInputTokens - 2) \o Run("eos", 1)
    ELSE Truncate(runs, MaxInputTokens)

Faults == {"none", "encode", "generate", "decode"}

ErrorPrefix == "Error generating answer: "

\* str(e) of the exception raised in the try block.
ErrorMessage(name, f) ==
    IF name \notin DOMAIN models THEN "KeyError"
    ELSE IF f = "encode" THEN "tokenizer.encode raised"
    ELSE IF f = "generate" THEN "model.generate raised"
    ELSE "tokenizer.decode raised"

\* The try block of generate_answer: the exception it ends with, if any, the
\* encoded input once there is one, and the decoded answer.
TryBlock(name, doc_tokens, q_tokens, f) ==
    IF name \notin DOMAIN models
    THEN [exc |-> TRUE, inputs |-> NoneValue, answer |-> NoneValue]
    ELSE IF f = "encode"
    THEN [exc |-> TRUE, inputs |-> NoneValue, answer |-> NoneValue]
    ELSE LET inputs == Encode(tokenizers[name], PromptTokens(q_tokens, doc_tokens))
         IN  IF f \in {"generate", "decode"}
             THEN [exc |-> TRUE, inputs |-> inputs, answer |-> NoneValue]
             ELSE [exc |-> FALSE, inputs |-> inputs,
                   answer |-> <<"decoded answer of ", models[name].name>>]

\* generate_answer whose try block starts after the two dict lookups.
GenerateAnswerLookupOutsideTry(name, doc_tokens, q_tokens, f) ==
    LET t == TryBlock(name, doc_tokens, q_tokens, f)
    IN  IF name \notin DOMAIN models
        THEN [raised |-> TRUE, value |-> NoneValue, inputs |-> t.inputs]
        ELSE IF t.exc
        THEN [raised |-> FALSE, inputs |-> t.inputs,
              value |-> <<ErrorPrefix, ErrorMessage(name, f)>>]
        ELSE [raised |-> FALSE, inputs |-> t.inputs, value |-> t.answer]

\* generate_answer(model_name, pdf_text, question): except Exception turns
\* whatever the try block raised into the returned error string.  What the
\* library calls raise is taken to be an Exception (not a KeyboardInterrupt
\* or SystemExit, which the handler would let through).
GenerateAnswer(name, doc_tokens, q_tokens, f) ==
    LET t == TryBlock(name, doc_tokens, q_tokens, f)
    IN  IF t.exc
        THEN [raised |-> FALSE, inputs |-> t.inputs,
              value |-> <<ErrorPrefix, ErrorMessage(name, f)>>]
        ELSE [raised |-> FALSE, inputs |-> t.inputs, value |-> t.answer]

\* The token counts tried: short texts, and texts around the context limit.
QuestionCounts ==
    (0..MaxShortTokens)
    \cup ((MaxInputTokens - TemplateTokens - BoundaryTokens - 3)
            ..(MaxInputTokens + MaxShortTokens))
DocCounts == (0..MaxShortTokens) \cup {MaxInputTokens, 2 * MaxInputTokens}

InitGen ==
    /\ model_name \in {"bart", "gpt2", "gpt_neo", "t5"}
    /\ question_tokens \in QuestionCounts
    /\ pdf_tokens \in DocCounts
    /\ fault \in Faults
    /\ outcome = NoneValue
    /\ gpc = "start"
    /\ RefsIdle
    /\ ProcessStarted
    /\ ProcIdle

\* outcome = generate_answer(model_name, pdf_text, question)
CallGenerateAnswer ==
    /\ gpc = "start"
    /\ outcome' = GenerateAnswer(model_name, pdf_tokens, question_tokens, fault)
    /\ gpc' = "done"
    /\ UNCHANGED <<model_name, question_tokens, pdf_tokens, fault>>
    /\ UNCHANGED <<refVars, globalVars, procVars>>

NextGen == CallGenerateAnswer

SpecGen == InitGen /\ [][NextGen]_vars

----------------------------------------------------------------------------
(* The /process handler                                                     *)

ALLOWED_EXTENSIONS == {<<"pdf">>, <<"txt">>}
UPLOAD_FOLDER == <<"uploads">>

\* str.lower() on the pieces file names are made of.
LowerPiece(c) ==
    CASE c = "PDF" -> "pdf"
      [] c = "TXT" -> "txt"
      [] c = "EXE" -> "exe"
      [] OTHER -> c

Lower(str) == [i \in 1..Len(str) |-> LowerPiece(str[i])]

\* The index of the last "." of a file name, or 0.
LastDot(filename) ==
    IF \E i \in 1..Len(filename) : filename[i] = "."
    THEN CHOOSE i \in 1..Len(filename) :
            /\ filename[i] = "."
            /\ \A j \in (i + 1)..Len(filename) : filename[j] # "."
    ELSE 0

\* allowed_file(filename):
\* '.' in filename and filename.rsplit('.', 1)[1].lower() in ALLOWED_EXTENSIONS
allowed_file(filename) ==
    /\ LastDot(filename) # 0
    /\ Lower(SubSeq(filename, LastDot(filename) + 1, Len(filename)))
          \in ALLOWED_EXTENSIONS

RECURSIVE StripLeft(_)
StripLeft(str) ==
    IF str # <<>> /\ Head(str) \in {".", "..", "_"} THEN StripLeft(Tail(str)) ELSE str

RECURSIVE StripRight(_)
StripRight(str) ==
    IF str # <<>> /\ str[Len(str)] \in {".", "..", "_"}
    THEN StripRight(SubSeq(str, 1, Len(str) - 1))
    ELSE str

\* werkzeug's secure_filename: path separators become "_", then leading and
\* trailing dots and underscores are stripped.
secure_filename(filename) ==
    StripRight(StripLeft([i \in 1..Len(filename) |->
                            IF filename[i] = "/" THEN "_" ELSE filename[i]]))

\* os.path.join(app.config['UPLOAD_FOLDER'], filename)
FilePath(filename) == UPLOAD_FOLDER \o <<"/">> \o filename

SimulatedText == <<"Simulated text from PDF extraction.">>

\* The number of tokens the tokenizer makes of a string of the handler: one
\* for each piece.
TokenCount(str) == Len(str)

\* The requests tried.
Questions == {NoneValue, <<>>, <<"q">>}
PdfTexts == {NoneValue, <<>>, <<"a">>, <<"[", "1", "]", " ", "a">>}
FileNames ==
    { NoneValue, <<>>, <<"paper", ".", "pdf">>, <<"notes", ".", "TXT">>,
      <<"tool", ".", "exe">>, <<"README">>, <<"..", "/", "cv", ".", "pdf">> }

\* The rejected requests, with the check of the document left out.
RejectedQuestionOnly(q, t, f) == ~Truthy(q)

\* if not question or not (pdf_text or uploaded_file)
Rejected(q, t, f) == ~Truthy(q) \/ ~(Truthy(t) \/ Truthy(f))

\* The branch that saves the upload, taken for every uploaded file.
SavesUploadAlways(f) == Truthy(f)

\* if uploaded_file and allowed_file(uploaded_file.filename)
SavesUpload(f) == Truthy(f) /\ allowed_file(f)

Init ==
    /\ ProcessStarted
    /\ ProcIdle
    /\ RefsIdle
    /\ GenIdle

\* A POST to /process arrives; the handler reads question, pdf_text and file.
Receive ==
    /\ hpc \in {"idle", "responded"}
    /\ served < MaxRequests
    /\ \E q \in Questions, t \in PdfTexts, f \in FileNames :
          /\ request' = [question |-> q, pdf_text |-> t, file |-> f]
          /\ question' = q
          /\ pdf_text' = t
          /\ uploaded_file' = f
    /\ references' = <<>>
    /\ answers' = <<>>
    /\ calls' = <<>>
    /\ response' = NoResponse
    /\ hpc' = "received"
    /\ served' = served + 1
    /\ UNCHANGED <<refVars, genVars, globalVars>>

\* The validation: a 400 response, or on to the upload.
Validate ==
    /\ hpc = "received"
    /\ IF Rejected(question, pdf_text, uploaded_file)
       THEN /\ response' = [status |-> 400,
                            error |-> "Both question and PDF text are required"]
            /\ hpc' = "responded"
       ELSE /\ response' = response
            /\ hpc' = "validated"
    /\ UNCHANGED <<request, question, pdf_text, uploaded_file, references,
                   answers, calls, served>>
    /\ UNCHANGED <<refVars, genVars, globalVars>>

\* The upload branch: the file is saved under UPLOAD_FOLDER and pdf_text
\* becomes the placeholder; otherwise nothing happens.  The folder is taken
\* to exist and the write to succeed.
Ingest ==
    /\ hpc = "validated"
    /\ IF SavesUpload(uploaded_file)
       THEN /\ uploads' = uploads \cup {FilePath(secure_filename(uploaded_file))}
            /\ pdf_text' = SimulatedText
       ELSE /\ uploads' = uploads
            /\ pdf_text' = pdf_text
    /\ hpc' = "ingested"
    /\ UNCHANGED <<request, question, uploaded_file, references, answers, calls,
                   response, served>>
    /\ UNCHANGED <<refVars, genVars, models, tokenizers>>

\* references = extract_references(pdf_text); an exception it raises leaves
\* the handler, and the server answers 500.
Extract ==
    /\ hpc = "ingested"
    /\ calls' = Append(calls, "extract_references")
    /\ LET r == ExtractReferences(pdf_text)
       IN  IF r.raised
           THEN /\ response' = [status |-> 500, error |-> "TypeError"]
                /\ hpc' = "responded"
                /\ references' = references
           ELSE /\ response' = response
                /\ hpc' = "extracted"
                /\ references' = r.value
    /\ UNCHANGED <<request, question, pdf_text, uploaded_file, answers, served>>
    /\ UNCHANGED <<refVars, genVars, globalVars>>

\* The next of the three assignments
\*   bart_answer = generate_answer('bart', pdf_text, question), ...
\* Whether a library call raises inside it is not the handler's choice.
Generate ==
    /\ hpc = "extracted"
    /\ Len(answers) < Len(ModelKeys)
    /\ LET key == ModelKeys[Len(answers) + 1]
       IN  /\ calls' = Append(calls, key)
           /\ \E f \in Faults :
                LET r == GenerateAnswer(key, TokenCount(pdf_text),
                                        TokenCount(question), f)
                IN  IF r.raised
                    THEN /\ response' = [status |-> 500, error |-> "KeyError"]
                         /\ hpc' = "responded"
                         /\ answers' = answers
                    ELSE /\ response' = response
                         /\ hpc' = hpc
                         /\ answers' = Append(answers, [model |-> key, answer |-> r.value])
    /\ UNCHANGED <<request, question, pdf_text, uploaded_file, references, served>>
    /\ UNCHANGED <<refVars, genVars, globalVars>>

\* return render_template('result.html', ...)
Render ==
    /\ hpc = "extracted"
    /\ Len(answers) = Len(ModelKeys)
    /\ response' = [status |-> 200,
                    question |-> question,
                    answers |-> answers,
                    references |-> references]
    /\ hpc' = "responded"
    /\ UNCHANGED <<request, question, pdf_text, uploaded_file, references,
                   answers, calls, served>>
    /\ UNCHANGED <<refVars, genVars, globalVars>>

Next == Receive \/ Validate \/ Ingest \/ Extract \/ Generate \/ Render

Spec == Init /\ [][Next]_vars

----------------------------------------------------------------------------
(* The input texts of SpecRefs                                              *)

RawChars == {"[", "1", "]", " ", "\n", "a"}

RECURSIVE SeqsUpTo(_, _)
\* Every sequence over S of length at most n.
SeqsUpTo(S, n) ==
    IF n = 0
    THEN {<<>>}
    ELSE LET shorter == SeqsUpTo(S, n - 1)
         IN  shorter \cup {Append(s, c) : s \in {x \in shorter : Len(x) = n - 1}, c \in S}

RawTexts == SeqsUpTo(RawChars, MaxTextLen)

BlankLine == <<"\n", "\n">>
\* A blank line with the CRLF line ends of a submitted form field.
CrLfBlankLine == <<"\r", "\n", "\r", "\n">>
SingleNewline == <<"\n">>
Separators == {BlankLine, CrLfBlankLine, SingleNewline}

\* The separator leaves an empty line between two entries.
IsBlankLine(sep) == sep \in {BlankLine, CrLfBlankLine}

\* What may follow the bracket label of an entry: nothing, whitespace only,
\* one line, or a line wrapped onto a second one.
Contents ==
    { <<>>, <<" ">>, <<" ", " ">>, <<" ", "a">>, <<"\n", "a">>,
      <<" ", "a", "\n", "a">> }

\* Body paragraphs in front of the reference section: none, plain prose, and
\* prose that cites "[3] " inline.
Bodies == { <<>>, <<"a", " ", "a">>, <<"a", " ", "[", "3", "]", " ", "a">> }

DigitOf == <<"1", "2", "3", "4", "5", "6", "7", "8", "9">>

\* The bracket label of the i-th entry.
Label(i) == <<"[", DigitOf[i], "]">>

RECURSIVE LayOutEntries(_, _, _)
\* Entries i.. of a laid-out document, each behind its separator.
LayOutEntries(entries, seps, i) ==
    IF i > Len(entries)
    THEN <<>>
    ELSE (IF i = 1 THEN <<>> ELSE seps[i - 1])
         \o Label(i) \o entries[i] \o LayOutEntries(entries, seps, i + 1)

\* The text of a laid-out document: the body paragraph, a blank line, then
\* the entries.
LayOut(d) ==
    (IF d.body = <<>> THEN <<>> ELSE d.body \o BlankLine)
    \o LayOutEntries(d.entries, d.seps, 1)

LaidOutDocs ==
    UNION { { [kind |-> "entries", body |-> b, entries |-> es, seps |-> ss] :
                b \in Bodies,
                es \in [1..n -> Contents],
                ss \in [1..(n - 1) -> Separators] } : n \in 1..MaxEntries }

RawDocs ==
    { [kind |-> "raw", body |-> t, entries |-> <<>>, seps |-> <<>>] : t \in RawTexts }

TextOf(d) == IF d.kind = "raw" THEN d.body ELSE LayOut(d)

InitRefs ==
    /\ doc \in RawDocs \cup LaidOutDocs
    /\ text = TextOf(doc)
    /\ returned = <<>>
    /\ rpc = "start"
    /\ GenIdle
    /\ ProcessStarted
    /\ ProcIdle

\* returned = extract_references(text)
CallExtractReferences ==
    /\ rpc = "start"
    /\ returned' = ExtractReferences(text).value
    /\ rpc' = "done"
    /\ UNCHANGED <<doc, text>>
    /\ UNCHANGED <<genVars, globalVars, procVars>>

NextRefs == CallExtractReferences

SpecRefs == InitRefs /\ [][NextRefs]_vars

----------------------------------------------------------------------------
(* The reference pattern stated on its own, for the claims below            *)

\* t[s..e] is a match of the pattern: a label "[digits]" ending at some k,
\* one whitespace character, at least one more character, and a blank line
\* or the end of the text right after e.
PatternMatches(t, s, e) ==
    \E k \in (s + 2)..(e - 2) :
        /\ t[s] = "["
        /\ \A i \in (s + 1)..(k - 1) : IsDigit(t[i])
        /\ t[k] = "]"
        /\ IsSpace(t[k + 1])
        /\ \/ e = Len(t)
           \/ e + 2 <= Len(t) /\ t[e + 1] = "\n" /\ t[e + 2] = "\n"

HasMatch(t) == \E s \in 1..Len(t), e \in 1..Len(t) : PatternMatches(t, s, e)

\* Every entry of the laid-out document has some text behind its label.
EntriesHaveText(d) ==
    /\ d.kind = "entries"
    /\ \A i \in 1..Len(d.entries) :
          \E j \in 1..Len(d.entries[i]) : ~IsSpace(d.entries[i][j])

\* The laid-out document is N entries and nothing else, every two of them
\* a blank line apart, and each with some text behind its label.
WellSeparated(d) ==
    /\ EntriesHaveText(d)
    /\ d.body = <<>>
    /\ \A i \in 1..Len(d.seps) : IsBlankLine(d.seps[i])

\* C1: extract_references never returns an empty sequence: a text with no
\* match of the pattern gives exactly <<Sentinel>>, a text with a match gives
\* the non-empty sequence of its matches.
C1_NeverEmpty ==
    rpc = "done" =>
        /\ returned # <<>>
        /\ ~HasMatch(text) => returned = <<Sentinel>>
        /\ HasMatch(text) =>
              /\ Sentinel \notin {returned[i] : i \in 1..Len(returned)}
              /\ \A i \in 1..Len(returned) :
                    \E s \in 1..Len(text), e \in 1..Len(text) :
                        /\ PatternMatches(text, s, e)
                        /\ returned[i] = SubSeq(text, s, e)

\* A non-empty text that holds a bracket label and still has no match.
C1_Witness ==
    /\ rpc = "done"
    /\ Contains(text, <<"[", "1", "]">>)
    /\ ~HasMatch(text)
    /\ returned = <<Sentinel>>

\* C2: a document of N entries a blank line apart gives exactly N strings,
\* in order, the i-th starting with the i-th entry's bracket label.  Stated
\* here for entries that have text behind the label only: it fails already
\* for those.
C2_OnePerEntry ==
    (rpc = "done" /\ WellSeparated(doc)) =>
        /\ Len(returned) = Len(doc.entries)
        /\ \A i \in 1..Len(returned) : StartsWith(returned[i], Label(i))

\* C3: two entries a blank line apart are never returned inside one string,
\* and two labelled lines a single newline apart are never returned as two
\* strings.
C3_NoMergeNoSplit ==
    (rpc = "done" /\ doc.kind = "entries") =>
        \A i \in 1..Len(doc.seps) :
            /\ IsBlankLine(doc.seps[i]) =>
                  ~ \E k \in 1..Len(returned) :
                        /\ Contains(returned[k], Label(i))
                        /\ Contains(returned[k], Label(i + 1))
            /\ doc.seps[i] = SingleNewline =>
                  ~ \E k \in 1..Len(returned), m \in 1..Len(returned) :
                        /\ k # m
                        /\ StartsWith(returned[k], Label(i))
                        /\ StartsWith(returned[m], Label(i + 1))

\* C4: every returned string other than the sentinel is an entry of the
\* trailing reference section; a label cited in a body paragraph in front of
\* that section gives no returned string.  Stated for reference sections
\* whose entries all have text behind the label.
C4_OnlyTrailingSection ==
    (rpc = "done" /\ EntriesHaveText(doc)) =>
        \A k \in 1..Len(returned) :
            returned[k] # Sentinel =>
                \E i \in 1..Len(doc.entries) : StartsWith(returned[k], Label(i))

----------------------------------------------------------------------------
(* generate_answer: the claims                                              *)

\* A step of the call fails: the key is not configured, or a library call
\* raises.
Failing == model_name \notin DOMAIN models \/ fault # "none"

\* C5: generate_answer never propagates a failure: when the lookup, the
\* tokenization, the generation or the decoding raises, it returns a string
\* beginning with the error prefix; it returns the decoded answer only when
\* every step completed.
C5_NeverPropagates ==
    gpc = "done" =>
        /\ ~outcome.raised
        /\ Failing => outcome.value[1] = ErrorPrefix
        /\ outcome.value[1] # ErrorPrefix =>
              /\ ~Failing
              /\ outcome.value = <<"decoded answer of ", models[model_name].name>>

\* The call was made with a key that is not configured and returned the
\* error string.
C5_Witness ==
    /\ gpc = "done"
    /\ model_name \notin DOMAIN models
    /\ ~outcome.raised
    /\ outcome.value[1] = ErrorPrefix

\* The call got as far as an encoded input.
Encoded == gpc = "done" /\ outcome.inputs # NoneValue

\* The special tokens the tokenizer of a configured model adds.
SpecialTokens(name) == IF tokenizers[name].special THEN 2 ELSE 0

\* Template, question and boundary fit within the context limit.
PrefixFits ==
    TemplateTokens + question_tokens + BoundaryTokens + SpecialTokens(model_name)
        <= MaxInputTokens

\* The encoded input holds every token of the question/context boundary.
BoundaryIntact(inputs) ==
    \E i \in 1..Len(inputs) : inputs[i] = [part |-> "boundary", n |-> BoundaryTokens]

\* The encoded input without the special tokens around it.
Content(inputs) == SelectSeq(inputs, LAMBDA r : r.part \notin {"bos", "eos"})

\* The input is the prompt cut to the context limit from its end.
IsTruncatedPrompt(inputs, prompt, special) ==
    /\ Total(inputs) <= MaxInputTokens
    /\ Total(inputs) =
          IF Total(prompt) + special <= MaxInputTokens
          THEN Total(prompt) + special
          ELSE MaxInputTokens
    /\ \A i \in 1..Total(Content(inputs)) :
          TokenAt(Content(inputs), i) = TokenAt(prompt, i)

\* C8 as stated: the input is the prompt cut to 1024 tokens from its end, and
\* for a question whose template, question and boundary fit within the limit
\* some document is long enough that the input has lost the boundary.
C8_DocumentRemovesBoundary ==
    (Encoded /\ PrefixFits) =>
        /\ IsTruncatedPrompt(outcome.inputs,
                             PromptTokens(question_tokens, pdf_tokens),
                             SpecialTokens(model_name))
        /\ \E d \in DocCounts :
              ~BoundaryIntact(Encode(tokenizers[model_name],
                                     PromptTokens(question_tokens, d)))

\* C8 as amended: the input is the prompt cut to 1024 tokens from its end,
\* and it holds the whole boundary exactly when template, question and
\* boundary fit within the limit, whatever the length of the document.
C8_BoundaryDependsOnQuestion ==
    Encoded =>
        /\ IsTruncatedPrompt(outcome.inputs,
                             PromptTokens(question_tokens, pdf_tokens),
                             SpecialTokens(model_name))
        /\ BoundaryIntact(outcome.inputs) <=> PrefixFits

\* A document of twice the context limit was cut, and the boundary is still
\* in the input.
C8_Witness ==
    /\ Encoded
    /\ question_tokens > 0
    /\ pdf_tokens = 2 * MaxInputTokens
    /\ Total(outcome.inputs) = MaxInputTokens
    /\ BoundaryIntact(outcome.inputs)

----------------------------------------------------------------------------
(* The /process handler: the claims                                         *)

\* The request in hand passed, or would pass, the validation.
PassedValidation ==
    /\ hpc \notin {"idle", "received"}
    /\ ~Rejected(request.question, request.pdf_text, request.file)

\* The generate_answer calls of the request in hand, in the order made.
GenerateCalls == SelectSeq(calls, LAMBDA c : c # "extract_references")

\* C6: every request that passes validation completes with a rendered result
\* of exactly three answers, one per configured model, after generate_answer
\* was called once for bart, gpt2 and gpt_neo in that order, whichever of the
\* three generations failed.
C6_ThreeAnswersAlways ==
    (hpc = "responded" /\ PassedValidation) =>
        /\ response.status = 200
        /\ GenerateCalls = ModelKeys
        /\ Len(response.answers) = Len(ModelKeys)
        /\ \A i \in 1..Len(ModelKeys) : response.answers[i].model = ModelKeys[i]

\* C7: a request with no text and no file, with or without a question, is
\* answered 400, and a 400 response is given before extract_references or
\* generate_answer is called.
C7_RejectedBeforeAnyCall ==
    /\ (/\ hpc \notin {"idle", "received"}
        /\ ~Truthy(request.pdf_text)
        /\ ~Truthy(request.file)) =>
            (hpc = "responded" /\ response.status = 400)
    /\ response.status = 400 =>
            (calls = <<>> /\ answers = <<>> /\ references = <<>>)

\* A request with a question and neither text nor file was answered 400.
C7_Witness ==
    /\ hpc = "responded"
    /\ response.status = 400
    /\ Truthy(request.question)
    /\ ~Truthy(request.pdf_text)
    /\ ~Truthy(request.file)
    /\ calls = <<>>

\* C9 as stated: once a request has completed, the registry and the disk are
\* what they were before it.
C9_NoStateRetained ==
    hpc \in {"idle", "responded"} =>
        /\ models = MODEL_NAMES
        /\ tokenizers = TokenizerRegistry
        /\ uploads = {}

\* The file of the request in hand is named <stem>.<pdf or txt>, in any case.
NamedAsAllowed ==
    /\ Truthy(request.file)
    /\ Len(request.file) >= 2
    /\ request.file[Len(request.file) - 1] = "."
    /\ request.file[Len(request.file)] \in {"pdf", "PDF", "txt", "TXT"}

\* C9 as amended: no step changes the model and tokenizer registry, and the
\* only thing a request leaves behind is its uploaded file, saved under the
\* upload folder when its extension is allowed; a request with raw text only,
\* or with a file of another extension, leaves the disk as it was.
C9_OnlyTheUploadIsKept ==
    [][ /\ models' = models
        /\ tokenizers' = tokenizers
        /\ uploads' # uploads =>
              /\ hpc = "validated"
              /\ NamedAsAllowed
              /\ \E name \in {<<"paper", ".", "pdf">>, <<"notes", ".", "TXT">>,
                              <<"cv", ".", "pdf">>} :
                    uploads' = uploads \cup {<<"uploads", "/">> \o name}
        /\ (hpc = "validated" /\ ~NamedAsAllowed) => uploads' = uploads ]_vars

\* A request that uploaded "../cv.pdf" has completed, and uploads/cv.pdf is
\* on the disk.
C9_Witness ==
    /\ hpc = "responded"
    /\ response.status = 200
    /\ request.file = <<"..", "/", "cv", ".", "pdf">>
    /\ <<"uploads", "/", "cv", ".", "pdf">> \in uploads

\* C10: a request that passed validation reaches extract_references with a
\* string for pdf_text, and the handler does not fail after validation.
C10_DocumentTextDefined ==
    PassedValidation =>
        /\ hpc = "ingested" => pdf_text # NoneValue
        /\ response.status # 500

====
